---- MODULE Spec2Model ----
(***************************************************************************)
(* Model of the minichart query builder of                                 *)
(* src/internal-packages/crud/lib/component/document-actions.jsx:          *)
(* handleQueryBuilderEvent and the two handlers it routes to,              *)
(* handleDistinctEvent and handleRangeEvent, acting on one chart's         *)
(* selectedValues, on the class list of every chart element and on         *)
(* refineValue.                                                            *)
(*                                                                         *)
(* A chart element is identified by its index in data.all.  An entry of    *)
(* selectedValues is the event data of a click; of that data the handlers  *)
(* later read only .self and .d, which the clicked element determines, so  *)
(* an entry is modelled by the index of the clicked element.  The value    *)
(* Undefined stands for a slot of the array that was never assigned.       *)
(***************************************************************************)
EXTENDS Integers, Sequences, FiniteSets, TLC

\* ------------------------------------------------------------------ bounds
NumElements == 2        \* chart elements in data.all
MaxValue == 2           \* d.value ranges over 0..MaxValue
BinWidth == 2           \* d.dx is 0 (exact element) or BinWidth (bin)
OidPerSecond == 2       \* ObjectIDs generated within one second

Elements == 1..NumElements
Values == 0..MaxValue
BinWidths == {0, BinWidth}
Types == {"Boolean", "String", "Number", "Date", "ObjectID", "Other"}
Sources == {"few", "many", "unique", "date"}

Undefined == 0

VARIABLES
  fieldType,        \* this.model.getType()
  all,              \* data.all: the datum d (label, value, dx) of each element
  selectedValues,   \* this.selectedValues
  classList,        \* el.classList of each element, restricted to the two classes
  refineValue,      \* this.refineValue
  last,             \* the event handled last and how its handling ended
  snap              \* history: the selection and the classes after an earlier event

vars == <<fieldType, all, selectedValues, classList, refineValue, last, snap>>

\* ------------------------------------------------------- library functions
\* _.pluck(array, 'd.label'): the label of each entry, undefined for a hole
Pluck(sel) == [k \in 1..Len(sel) |-> IF sel[k] = Undefined THEN Undefined ELSE all[sel[k]].label]

\* _.contains(array, value)
Contains(seq, v) == \E k \in 1..Len(seq) : seq[k] = v

\* some entry of the array is undefined
HasHole(sel) == \E k \in 1..Len(sel) : sel[k] = Undefined

RECURSIVE SelectSeqBy(_, _)
\* the entries of sel, in order, whose label differs from label
SelectSeqBy(sel, label) ==
  IF sel = <<>> THEN <<>>
  ELSE IF all[Head(sel)].label = label
       THEN SelectSeqBy(Tail(sel), label)
       ELSE <<Head(sel)>> \o SelectSeqBy(Tail(sel), label)

\* _.remove(array, function(d) { return d.d.label === label; }) on an array
\* without holes
Remove(sel, label) == SelectSeqBy(sel, label)

\* ------------------------------------------------------ _getComparableValue
\* an ObjectID is modelled by the number it encodes: its leading bytes are
\* the creation time, the rest distinguishes ids created in the same second
GetTimestamp(v) == v \div OidPerSecond

GetComparableValue(d) == IF fieldType = "ObjectID" THEN GetTimestamp(d.value) ELSE d.value

\* --------------------------------------------------------------- predicates
Unset == [kind |-> "unset"]
LeafValue(content) == [kind |-> "LeafValue", content |-> content]
ListOperator(values) == [kind |-> "ListOperator", in |-> values]
Range(lower, upper, upperInclusive) ==
  [kind |-> "Range", lower |-> lower, upper |-> upper, upperInclusive |-> upperInclusive]

NoClasses == [el \in Elements |-> {}]

\* The handlers never read the position of an element in data.all, so the
\* charts are enumerated up to the order of their elements: by ascending value.
\* Labels are unique within a chart; values need not be.
SortedValues ==
  {v \in [Elements -> Values] : \A i, j \in Elements : i <= j => v[i] <= v[j]}

Charts ==
  {[el \in Elements |-> [label |-> el, value |-> v[el], dx |-> w[el]]] :
     v \in SortedValues, w \in [Elements -> BinWidths]}

Init ==
  /\ fieldType \in Types
  /\ all \in Charts
  /\ selectedValues = <<>>
  /\ classList = NoClasses
  /\ refineValue = Unset
  /\ last = [handler |-> "none", self |-> Undefined, modifier |-> FALSE,
             threw |-> FALSE, stopPropagation |-> 0, preventDefault |-> 0]
  /\ snap = [taken |-> FALSE, sel |-> <<>>, cls |-> NoClasses]

\* ------------------------------------------------------ handleDistinctEvent
\* lines 134-144 raise a TypeError: `undefined.self` on a sole undefined
\* entry, or the callback of _.remove reading `.d` of an undefined entry
\* (_.remove calls it on every entry before it removes any)
DistinctSelectThrows(sel, self, modifier) ==
  IF ~modifier
  THEN Len(sel) = 1 /\ sel[1] = Undefined
  ELSE Contains(Pluck(sel), all[self].label) /\ HasHole(sel)

\* DistinctSelect without the test of the length (line 135): a click on
\* the first of several selected elements clears the selection
DistinctSelectAnyLength(sel, self, modifier) ==
  IF ~modifier
  THEN IF Len(sel) >= 1 /\ sel[1] = self THEN <<>> ELSE <<self>>
  ELSE IF Contains(Pluck(sel), all[self].label)
       THEN Remove(sel, all[self].label)
       ELSE Append(sel, self)

\* lines 134-144: the new selectedValues
DistinctSelect(sel, self, modifier) ==
  IF ~modifier
  THEN IF Len(sel) = 1 /\ sel[1] = self THEN <<>> ELSE <<self>>
  ELSE IF Contains(Pluck(sel), all[self].label)
       THEN Remove(sel, all[self].label)
       ELSE Append(sel, self)

\* lines 147-155 and 196-203: 'selected' is removed from every element, and
\* 'unselected' is removed from all of them or added to all of them
Sweep(cls, dim) ==
  [el \in Elements |->
     IF dim THEN (cls[el] \ {"selected"}) \cup {"unselected"}
     ELSE cls[el] \ {"selected", "unselected"}]

\* index of the first undefined entry, Len(sel) + 1 when there is none
FirstHole(sel) ==
  IF HasHole(sel)
  THEN CHOOSE k \in 1..Len(sel) :
         sel[k] = Undefined /\ \A j \in 1..(k - 1) : sel[j] # Undefined
  ELSE Len(sel) + 1

\* lines 156-159: _.each visits the entries in index order and stops at the
\* TypeError that `selected.self` raises on an undefined entry
Highlight(cls, els) ==
  [el \in Elements |->
     IF el \in els THEN (cls[el] \cup {"selected"}) \ {"unselected"} ELSE cls[el]]

DistinctClasses(cls, sel) ==
  Highlight(Sweep(cls, Len(sel) # 0), {sel[k] : k \in 1..(FirstHole(sel) - 1)})

\* lines 162-177
DistinctRefine(sel) ==
  IF Len(sel) = 0 THEN Unset
  ELSE IF Len(sel) = 1 THEN LeafValue(all[sel[1]].value)
  ELSE ListOperator([k \in 1..Len(sel) |-> all[sel[k]].value])

\* lines 132-178: the state handleDistinctEvent leaves behind
DistinctOutcome(sel, cls, pred, self, modifier) ==
  IF DistinctSelectThrows(sel, self, modifier)
  THEN [sel |-> sel, cls |-> cls, pred |-> pred, threw |-> TRUE]
  ELSE LET sel2 == DistinctSelect(sel, self, modifier) IN
       IF HasHole(sel2)
       THEN [sel |-> sel2, cls |-> DistinctClasses(cls, sel2), pred |-> pred,
             threw |-> TRUE]
       ELSE [sel |-> sel2, cls |-> DistinctClasses(cls, sel2),
             pred |-> DistinctRefine(sel2), threw |-> FALSE]

\* --------------------------------------------------------- handleRangeEvent
\* RangeSelect with the modifier-click pushing onto a selection of fewer
\* than two entries instead of assigning slot 1 (line 188)
RangeSelectPush(sel, self, modifier) ==
  IF modifier
  THEN IF Len(sel) >= 2 THEN [sel EXCEPT ![2] = self] ELSE Append(sel, self)
  ELSE IF Len(sel) >= 1 /\ sel[1] # Undefined /\ all[sel[1]].label = all[self].label
       THEN <<>>
       ELSE <<self>>

\* lines 187-193: the new selectedValues; `this.selectedValues[1] = data`
\* on an empty array leaves slot 0 unassigned
RangeSelect(sel, self, modifier) ==
  IF modifier
  THEN IF Len(sel) >= 2 THEN [sel EXCEPT ![2] = self]
       ELSE IF Len(sel) = 1 THEN <<sel[1], self>>
       ELSE <<Undefined, self>>
  ELSE IF Len(sel) >= 1 /\ sel[1] # Undefined /\ all[sel[1]].label = all[self].label
       THEN <<>>
       ELSE <<self>>

\* line 194 and the tests of lines 198, 204
FirstSelected(sel) == Len(sel) >= 1 /\ sel[1] # Undefined

\* lines 209-211: _.min(array, iteratee) keeps the first entry whose key is
\* smaller than every key before it
Min(sel) ==
  sel[CHOOSE k \in 1..Len(sel) :
        /\ \A j \in 1..Len(sel) :
             GetComparableValue(all[sel[k]]) <= GetComparableValue(all[sel[j]])
        /\ \A j \in 1..(k - 1) :
             GetComparableValue(all[sel[j]]) > GetComparableValue(all[sel[k]])]

\* lines 212-214: _.max(array, iteratee) keeps the first entry whose key is
\* larger than every key before it
Max(sel) ==
  sel[CHOOSE k \in 1..Len(sel) :
        /\ \A j \in 1..Len(sel) :
             GetComparableValue(all[sel[k]]) >= GetComparableValue(all[sel[j]])
        /\ \A j \in 1..(k - 1) :
             GetComparableValue(all[sel[j]]) < GetComparableValue(all[sel[k]])]

\* lines 217-221: the bounds used for the classes
ComparableLower(sel) == GetComparableValue(all[Min(sel)])

ComparableUpper(sel) ==
  IF fieldType = "Number"
  THEN GetComparableValue(all[Max(sel)]) + all[Max(sel)].dx
  ELSE GetComparableValue(all[Max(sel)])

\* UpperInclusive with `>=` for `===` (line 230): bins are upper-inclusive too
UpperInclusiveAnyWidth(sel) == all[Max(sel)].dx >= 0

\* line 230
UpperInclusive(sel) == all[Max(sel)].dx = 0

\* line 233
InRange(v, lower, upper, upperInclusive) ==
  v >= lower /\ (IF upperInclusive THEN v <= upper ELSE v < upper)

\* lines 196-203 and 231-237
RangeClasses(cls, sel) ==
  IF FirstSelected(sel) /\ ~HasHole(sel)
  THEN LET lower == ComparableLower(sel)
           upper == ComparableUpper(sel)
           upperInclusive == UpperInclusive(sel)
       IN Highlight(Sweep(cls, TRUE),
                    {el \in Elements :
                       InRange(GetComparableValue(all[el]), lower, upper,
                               upperInclusive)})
  ELSE Sweep(cls, FirstSelected(sel))

\* lines 240-244: the bounds used for the query
Lower(sel) == all[Min(sel)].value

\* Upper without the bin width of lines 242-244
UpperNoBinWidth(sel) == all[Max(sel)].value

Upper(sel) ==
  IF fieldType = "Number"
  THEN all[Max(sel)].value + all[Max(sel)].dx
  ELSE all[Max(sel)].value

\* line 245, `lower === upper`: numbers are compared by value, the Date or
\* ObjectID objects of two data by identity
StrictEquals(sel) ==
  IF fieldType = "Number" THEN Lower(sel) = Upper(sel) ELSE Min(sel) = Max(sel)

\* RangeRefine without the test of line 245: a range is always built
RangeRefineNoLeaf(sel) == Range(Lower(sel), Upper(sel), UpperInclusive(sel))

\* lines 245-249
RangeRefine(sel) ==
  IF StrictEquals(sel)
  THEN LeafValue(Lower(sel))
  ELSE Range(Lower(sel), Upper(sel), UpperInclusive(sel))

\* lines 186-251: the state handleRangeEvent leaves behind; the iteratee of
\* _.min raises a TypeError on an undefined entry
RangeOutcome(sel, cls, pred, self, modifier) ==
  LET sel2 == RangeSelect(sel, self, modifier) IN
  IF ~FirstSelected(sel2)
  THEN [sel |-> sel2, cls |-> RangeClasses(cls, sel2), pred |-> Unset,
        threw |-> FALSE]
  ELSE IF HasHole(sel2)
  THEN [sel |-> sel2, cls |-> RangeClasses(cls, sel2), pred |-> pred,
        threw |-> TRUE]
  ELSE [sel |-> sel2, cls |-> RangeClasses(cls, sel2), pred |-> RangeRefine(sel2),
        threw |-> FALSE]

\* -------------------------------------------------- handleQueryBuilderEvent
\* Route with the default case falling into the range handler
RouteDefaultRange(type, source) ==
  IF type \in {"Boolean", "String"} THEN "distinct"
  ELSE IF type = "Number" THEN (IF source = "unique" THEN "distinct" ELSE "range")
  ELSE "range"

\* Route with a Number field always sent to the range handler, whatever
\* the source (lines 275-279)
RouteNumberRange(type, source) ==
  IF type \in {"Boolean", "String"} THEN "distinct"
  ELSE IF type \in {"Number", "ObjectID", "Date"} THEN "range"
  ELSE "default"

\* lines 269-288: the handler the switch routes to
Route(type, source) ==
  IF type \in {"Boolean", "String"} THEN "distinct"
  ELSE IF type = "Number" THEN (IF source = "unique" THEN "distinct" ELSE "range")
  ELSE IF type \in {"ObjectID", "Date"} THEN "range"
  ELSE "default"

\* Handled with stopPropagation and preventDefault called after the switch
\* instead of before it: a handler that throws skips them
HandledAfterSwitch(handler, self, modifier, threw) ==
  [handler |-> handler, self |-> self, modifier |-> modifier, threw |-> threw,
   stopPropagation |-> IF threw THEN 0 ELSE 1,
   preventDefault |-> IF threw THEN 0 ELSE 1]

\* lines 266-267 and what is known of the event afterwards
Handled(handler, self, modifier, threw) ==
  [handler |-> handler, self |-> self, modifier |-> modifier, threw |-> threw,
   stopPropagation |-> 1, preventDefault |-> 1]

Apply(handler, self, modifier, out) ==
  /\ selectedValues' = out.sel
  /\ classList' = out.cls
  /\ refineValue' = out.pred
  /\ last' = Handled(handler, self, modifier, out.threw)
  /\ UNCHANGED <<fieldType, all, snap>>

\* lines 270-273, 275-276
HandleDistinctEvent(self, modifier, source) ==
  /\ Route(fieldType, source) = "distinct"
  /\ Apply("distinct", self, modifier,
           DistinctOutcome(selectedValues, classList, refineValue, self, modifier))

\* lines 277-278, 281-285
HandleRangeEvent(self, modifier, source) ==
  /\ Route(fieldType, source) = "range"
  /\ Apply("range", self, modifier,
           RangeOutcome(selectedValues, classList, refineValue, self, modifier))

\* lines 286-287
HandleDefault(self, modifier, source) ==
  /\ Route(fieldType, source) = "default"
  /\ last' = Handled("default", self, modifier, FALSE)
  /\ UNCHANGED <<fieldType, all, selectedValues, classList, refineValue, snap>>

HandleQueryBuilderEvent(self, modifier, source) ==
  \/ HandleDistinctEvent(self, modifier, source)
  \/ HandleRangeEvent(self, modifier, source)
  \/ HandleDefault(self, modifier, source)

Next ==
  \E self \in Elements, modifier \in BOOLEAN, source \in Sources :
    HandleQueryBuilderEvent(self, modifier, source)

Spec == Init /\ [][Next]_vars

TypeOK ==
  /\ fieldType \in Types
  /\ all \in Charts
  /\ selectedValues \in Seq(Elements \cup {Undefined})
  /\ classList \in [Elements -> SUBSET {"selected", "unselected"}]
  /\ refineValue.kind \in {"unset", "LeafValue", "ListOperator", "Range"}
  /\ last.handler \in {"none", "distinct", "range", "default"}

\* ------------------------------------------------------------------ claims
\* the entries of the selection that are assigned
Entries(sel) == {k \in 1..Len(sel) : sel[k] # Undefined}

RECURSIVE WithoutLabel(_, _)
\* sel without the assigned entries that carry label, the rest in order
WithoutLabel(sel, label) ==
  IF sel = <<>> THEN <<>>
  ELSE IF Head(sel) # Undefined /\ all[Head(sel)].label = label
       THEN WithoutLabel(Tail(sel), label)
       ELSE <<Head(sel)>> \o WithoutLabel(Tail(sel), label)

\* v satisfies the query that pred stands for
Satisfies(pred, v) ==
  IF pred.kind = "LeafValue" THEN v = pred.content
  ELSE IF pred.kind = "ListOperator" THEN \E k \in 1..Len(pred.in) : pred.in[k] = v
  ELSE IF pred.kind = "Range"
       THEN v >= pred.lower /\ (IF pred.upperInclusive THEN v <= pred.upper
                                ELSE v < pred.upper)
  ELSE TRUE

\* C1: a click without modifier in distinct mode empties the selection when
\* the selection is exactly the clicked element, and otherwise makes the
\* clicked element the whole selection.
C1_DistinctClick ==
  [][(last'.handler = "distinct" /\ ~last'.modifier) =>
       selectedValues' = IF selectedValues = <<last'.self>> THEN <<>>
                         ELSE <<last'.self>>]_vars

\* C1 witness: the sole selected element was clicked again and the
\* selection is empty.
C1_Witness ==
  /\ last.handler = "distinct" /\ ~last.modifier /\ ~last.threw
  /\ selectedValues = <<>>
  /\ refineValue = Unset

\* C2: a modifier-click in distinct mode appends the clicked element when
\* its label is not selected, and otherwise removes exactly the entries
\* with its label; every other entry stays, in order.
C2_DistinctModifierClick ==
  [][(last'.handler = "distinct" /\ last'.modifier) =>
       LET label == all[last'.self].label IN
       IF \E k \in Entries(selectedValues) : all[selectedValues[k]].label = label
       THEN selectedValues' = WithoutLabel(selectedValues, label)
       ELSE selectedValues' = Append(selectedValues, last'.self)]_vars

\* C3: when the distinct handler has finished, no two entries of the
\* selection have the same label and there are at most NumElements entries.
C3_DistinctNoDuplicates ==
  (last.handler = "distinct" /\ ~last.threw) =>
    /\ Len(selectedValues) <= NumElements
    /\ \A j, k \in Entries(selectedValues) :
         all[selectedValues[j]].label = all[selectedValues[k]].label => j = k

\* C4: when the range handler has finished, the selection has length 0, 1
\* or 2.
C4_RangeLength ==
  (last.handler = "range" /\ ~last.threw) => Len(selectedValues) \in {0, 1, 2}

\* C5: after a distinct-mode interaction the predicate is the one the
\* selection determines: none for an empty selection, the exact value of a
\* sole entry, the set of the values of two or more entries.
C5_DistinctPredicate ==
  last.handler = "distinct" =>
    IF Len(selectedValues) = 0 THEN refineValue = Unset
    ELSE IF Len(selectedValues) = 1
         THEN refineValue = LeafValue(all[selectedValues[1]].value)
    ELSE /\ refineValue.kind = "ListOperator"
         /\ {refineValue.in[k] : k \in 1..Len(refineValue.in)}
              = {all[selectedValues[k]].value : k \in Entries(selectedValues)}
         /\ Entries(selectedValues) = 1..Len(selectedValues)

\* C6: in range mode the two click orders of two elements with different
\* values give the same predicate and the same classes: what 'click A,
\* modifier-click B' has left is what the selection <<B, A>> gives.
C6_RangeOrderIndependent ==
  (/\ last.handler = "range" /\ last.modifier /\ ~last.threw
   /\ Len(selectedValues) = 2 /\ ~HasHole(selectedValues)
   /\ all[selectedValues[1]].value # all[selectedValues[2]].value) =>
    LET swapped == <<selectedValues[2], selectedValues[1]>> IN
    /\ refineValue = RangeRefine(swapped)
    /\ classList = RangeClasses(NoClasses, swapped)

\* C7: on a Number field two bounds with different values give the range
\* from the smaller value to the larger value plus the bin width of the
\* larger element, upper-inclusive exactly when that bin width is 0.
C7_NumberRange ==
  (/\ fieldType = "Number"
   /\ last.handler = "range" /\ ~last.threw
   /\ Len(selectedValues) = 2 /\ ~HasHole(selectedValues)
   /\ all[selectedValues[1]].value # all[selectedValues[2]].value) =>
    LET a == all[selectedValues[1]]
        b == all[selectedValues[2]]
        lo == IF a.value < b.value THEN a ELSE b
        hi == IF a.value < b.value THEN b ELSE a
    IN refineValue = [kind |-> "Range", lower |-> lo.value,
                      upper |-> hi.value + hi.dx, upperInclusive |-> (hi.dx = 0)]

\* C7 witness: a click and a modifier-click on two bins of a Number chart
\* have set an upper-exclusive range.
C7_Witness ==
  /\ fieldType = "Number"
  /\ last.handler = "range" /\ last.modifier /\ ~last.threw
  /\ Len(selectedValues) = 2 /\ ~HasHole(selectedValues)
  /\ all[selectedValues[1]].value < all[selectedValues[2]].value
  /\ all[selectedValues[2]].dx > 0
  /\ refineValue.kind = "Range" /\ ~refineValue.upperInclusive

\* C8: no range with equal bounds is ever set, and when the range handler
\* computes equal bounds it sets the exact value.
C8_NoZeroWidthRange ==
  /\ refineValue.kind = "Range" => refineValue.lower # refineValue.upper
  /\ (/\ last.handler = "range" /\ ~last.threw
      /\ FirstSelected(selectedValues) /\ ~HasHole(selectedValues)
      /\ Lower(selectedValues) = Upper(selectedValues)) =>
       refineValue = [kind |-> "LeafValue", content |-> Lower(selectedValues)]

\* C8 witness: two different elements with the same value are the bounds
\* and the predicate is that exact value.
C8_Witness ==
  /\ last.handler = "range" /\ last.modifier /\ ~last.threw
  /\ Len(selectedValues) = 2 /\ ~HasHole(selectedValues)
  /\ selectedValues[1] # selectedValues[2]
  /\ all[selectedValues[1]].value = all[selectedValues[2]].value
  /\ refineValue.kind = "LeafValue"

\* the range handler has set a range on a Number chart whose last element
\* is a bin
BinnedNumberRange ==
  /\ fieldType = "Number"
  /\ last.handler = "range" /\ ~last.threw
  /\ FirstSelected(selectedValues) /\ ~HasHole(selectedValues)
  /\ all[Max(selectedValues)].dx > 0

\* el is highlighted and satisfies the predicate
Included(el) ==
  /\ classList[el] = {"selected"}
  /\ Satisfies(refineValue, all[el].value)

\* el is dimmed and does not satisfy the predicate
Excluded(el) ==
  /\ classList[el] = {"unselected"}
  /\ ~Satisfies(refineValue, all[el].value)

\* C9 as stated: for a binned Number range an element whose value equals the
\* upper bound without the bin extension is excluded from the highlighting
\* and from the predicate, and an element just below the upper bound plus
\* the last bin's width is included in both.
C9_UpperWithoutExtensionExcluded ==
  BinnedNumberRange =>
    LET lastD == all[Max(selectedValues)] IN
    \A el \in Elements :
      /\ all[el].value = lastD.value => Excluded(el)
      /\ all[el].value = lastD.value + lastD.dx - 1 => Included(el)

\* C9 amended: for a binned Number range an element whose value equals the
\* upper bound with the bin extension is excluded from the highlighting and
\* from the predicate, and an element just below that bound is included in
\* both.
C9_HalfOpenBin ==
  BinnedNumberRange =>
    LET lastD == all[Max(selectedValues)] IN
    \A el \in Elements :
      /\ all[el].value = lastD.value + lastD.dx => Excluded(el)
      /\ all[el].value = lastD.value + lastD.dx - 1 => Included(el)

\* C9 witness: an element sits exactly on the extended upper bound of a
\* binned range and is dimmed.
C9_Witness ==
  /\ BinnedNumberRange
  /\ refineValue.kind = "Range"
  /\ \E el \in Elements :
       all[el].value = refineValue.upper /\ classList[el] = {"unselected"}

\* an element sits just below the extended upper bound of a binned range,
\* is not a bound itself and is highlighted
C9_JustBelow ==
  /\ BinnedNumberRange
  /\ refineValue.kind = "Range"
  /\ \E el \in Elements :
       /\ all[el].value = refineValue.upper - 1
       /\ \A k \in 1..Len(selectedValues) : selectedValues[k] # el
       /\ classList[el] = {"selected"}

\* C10: in range mode a modifier-click writes the clicked element into the
\* second slot and leaves the first slot as it was; a click without
\* modifier empties the selection when the first bound has the clicked
\* label and otherwise makes the clicked element the sole first bound.
C10_RangeToggle ==
  [][last'.handler = "range" =>
       IF last'.modifier
       THEN /\ Len(selectedValues') >= 2
            /\ selectedValues'[2] = last'.self
            /\ selectedValues'[1] = IF Len(selectedValues) >= 1
                                    THEN selectedValues[1] ELSE Undefined
       ELSE IF /\ Len(selectedValues) >= 1
               /\ selectedValues[1] # Undefined
               /\ all[selectedValues[1]].label = all[last'.self].label
            THEN selectedValues' = <<>>
            ELSE selectedValues' = <<last'.self>>]_vars

\* C10 witness: a modifier-click has filled the second slot beside a first
\* bound that is another element.
C10_Witness ==
  /\ last.handler = "range" /\ last.modifier
  /\ Len(selectedValues) = 2
  /\ selectedValues[2] = last.self
  /\ selectedValues[1] # Undefined /\ selectedValues[1] # selectedValues[2]

\* C11: after a range-mode interaction the predicate is cleared and every
\* element is neutral exactly when the selection is empty; a selection that
\* holds an entry has an exact value or a range as its predicate.
C11_RangeClearedIffEmpty ==
  last.handler = "range" =>
    /\ (refineValue = Unset /\ classList = NoClasses) <=> Len(selectedValues) = 0
    /\ Len(selectedValues) >= 1 => refineValue.kind \in {"LeafValue", "Range"}

\* C12: an interaction on a field of any other type than Boolean, String,
\* Number, Date or ObjectID leaves the selection, the predicate and the
\* classes of all elements as they were.
C12_UnsupportedTypeNoOp ==
  [][fieldType \notin {"Boolean", "String", "Number", "Date", "ObjectID"} =>
       /\ selectedValues' = selectedValues
       /\ refineValue' = refineValue
       /\ classList' = classList]_vars

\* C12 witness: an event on a field of another type has been handled and
\* nothing is selected, set or classified.
C12_Witness ==
  /\ fieldType = "Other"
  /\ last.handler = "default" /\ last.stopPropagation = 1
  /\ selectedValues = <<>> /\ refineValue = Unset /\ classList = NoClasses

\* C13: every event is handled by the one handler its field type and source
\* select: Boolean and String by the distinct handler; Number by the
\* distinct handler for source `unique` and by the range handler for any
\* other source; Date and ObjectID by the range handler.
C13_Dispatch ==
  [][\A self \in Elements, modifier \in BOOLEAN, source \in Sources :
       \/ last'.handler =
            CASE fieldType \in {"Boolean", "String"} -> "distinct"
              [] fieldType = "Number" /\ source = "unique" -> "distinct"
              [] fieldType = "Number" /\ source # "unique" -> "range"
              [] fieldType \in {"Date", "ObjectID"} -> "range"
              [] OTHER -> "default"
       \/ last'.self # self
       \/ last'.modifier # modifier
       \/ ~HandleQueryBuilderEvent(self, modifier, source)]_vars

\* C13 witness: an event of source `unique` on a Number chart has been
\* handled by the distinct handler, which alone sets a value list.
C13_Witness ==
  /\ fieldType = "Number"
  /\ last.handler = "distinct" /\ ~last.threw
  /\ refineValue.kind = "ListOperator"

\* the values that a value list names
ValueSet(pred) == {pred.in[k] : k \in 1..Len(pred.in)}

\* C14: on a String field with elements a and b, from an empty selection:
\* a click on a sets the exact value a; a modifier-click on b then sets the
\* value set {a, b}; a click on a then leaves a alone selected with the
\* exact value a; another click on a empties the selection and clears the
\* predicate.
C14_StringScenario ==
  [][(fieldType = "String" /\ last'.handler = "distinct") =>
       \A a, b \in Elements :
         (a # b /\ last'.self = IF last'.modifier THEN b ELSE a) =>
           /\ (selectedValues = <<>> /\ ~last'.modifier) =>
                /\ selectedValues' = <<a>>
                /\ refineValue' = [kind |-> "LeafValue", content |-> all[a].value]
           /\ (selectedValues = <<a>> /\ last'.modifier) =>
                /\ selectedValues' = <<a, b>>
                /\ refineValue'.kind = "ListOperator"
                /\ ValueSet(refineValue') = {all[a].value, all[b].value}
           /\ (selectedValues = <<a, b>> /\ ~last'.modifier) =>
                /\ selectedValues' = <<a>>
                /\ refineValue' = [kind |-> "LeafValue", content |-> all[a].value]
           /\ (selectedValues = <<a>> /\ ~last'.modifier) =>
                /\ selectedValues' = <<>>
                /\ refineValue' = [kind |-> "unset"]]_vars

\* C14 witness: on a String chart the click on a and the modifier-click on
\* b have selected both, in that order, and set the value set of the two.
C14_Witness ==
  /\ fieldType = "String"
  /\ last.handler = "distinct" /\ last.modifier /\ ~last.threw
  /\ Len(selectedValues) = 2
  /\ selectedValues[1] # selectedValues[2] /\ selectedValues[2] = last.self
  /\ refineValue.kind = "ListOperator"
  /\ ValueSet(refineValue) = {all[selectedValues[1]].value, all[selectedValues[2]].value}

\* the assigned entries of the selection, in order
Assigned(sel) == SelectSeq(sel, LAMBDA e : e # Undefined)

\* C15: after a range-mode interaction that leaves a selection with an
\* entry, every element is either selected or dimmed, and it is selected
\* exactly when its comparable value lies between the comparable value of
\* the first element (the minimum of the selection) and that of the last
\* element (the maximum, plus its bin width on a Number field), the upper
\* bound counting only when that bin width is 0.
C15_RangeClassification ==
  (last.handler = "range" /\ Len(selectedValues) >= 1) =>
    LET first == all[Min(Assigned(selectedValues))]
        lastD == all[Max(Assigned(selectedValues))]
        lower == GetComparableValue(first)
        upper == GetComparableValue(lastD)
                   + (IF fieldType = "Number" THEN lastD.dx ELSE 0)
    IN \A el \in Elements :
         /\ classList[el] \in {{"selected"}, {"unselected"}}
         /\ classList[el] = {"selected"} <=>
              /\ GetComparableValue(all[el]) >= lower
              /\ IF lastD.dx = 0
                 THEN GetComparableValue(all[el]) <= upper
                 ELSE GetComparableValue(all[el]) < upper

\* C16: after a distinct-mode interaction with a non-empty selection the
\* elements whose label is selected are selected and all others dimmed; with
\* an empty selection every element is neutral; no element is ever both
\* selected and dimmed.
C16_DistinctClassification ==
  /\ \A el \in Elements : classList[el] # {"selected", "unselected"}
  /\ last.handler = "distinct" =>
       \A el \in Elements :
         classList[el] =
           IF Len(selectedValues) = 0 THEN {}
           ELSE IF \E k \in Entries(selectedValues) :
                     all[selectedValues[k]].label = all[el].label
                THEN {"selected"}
                ELSE {"unselected"}

\* The selection and the classes that an event has left are remembered, to
\* be compared with what a longer history of the same chart leaves.
Snapshot ==
  /\ last.handler # "none"
  /\ snap' = [taken |-> TRUE, sel |-> selectedValues, cls |-> classList]
  /\ UNCHANGED <<fieldType, all, selectedValues, classList, refineValue, last>>

SnapNext == Next \/ Snapshot

SnapSpec == Init /\ [][SnapNext]_vars

\* C17: the classes are a function of the selection (and the chart): two
\* histories of a chart that end in the same selection end with the same
\* classes on every element.
C17_ClassesFunctionOfSelection ==
  (snap.taken /\ last.handler # "none" /\ selectedValues = snap.sel) =>
    classList = snap.cls

\* C18: for every event, whatever the field type, propagation and default
\* behaviour have been suppressed exactly once, and before the handler ran:
\* also when the handler stopped at an exception.
C18_SuppressedOnce ==
  last.handler # "none" => last.stopPropagation = 1 /\ last.preventDefault = 1

\* C18 witness: the handler of the last event threw, and the event had been
\* suppressed once before.
C18_Witness ==
  /\ last.handler = "distinct" /\ last.threw
  /\ last.stopPropagation = 1 /\ last.preventDefault = 1

\* C19: after a range-mode interaction that has set a predicate, for Number,
\* Date and ObjectID fields and every bin width, the elements classified
\* selected are the elements whose value satisfies the predicate, and the
\* elements that were clicked as bounds are among them.
C19_HighlightAgreesWithPredicate ==
  (last.handler = "range" /\ ~last.threw /\ refineValue.kind # "unset") =>
    /\ \A el \in Elements :
         classList[el] = {"selected"} <=> Satisfies(refineValue, all[el].value)
    /\ \A k \in Entries(selectedValues) :
         classList[selectedValues[k]] = {"selected"}

\* the labels of the assigned entries of a selection
Labels(sel) == {all[sel[k]].label : k \in Entries(sel)}

\* the values a predicate of the distinct handler names
Named(p) ==
  IF p.kind = "LeafValue" THEN {p.content}
  ELSE IF p.kind = "ListOperator" THEN ValueSet(p)
  ELSE {}

\* two predicates are both unset, or both name the same value or values
SameValues(p, q) ==
  /\ p.kind = "unset" <=> q.kind = "unset"
  /\ p.kind = "Range" \/ q.kind = "Range" => p = q
  /\ Named(p) = Named(q)

\* C20: in distinct mode two modifier-clicks in a row on the same element
\* restore the set of selected labels, the predicate (as a value or a set of
\* values) and the classes of all elements.
C20_ModifierClickInvolution ==
  last.handler = "distinct" =>
    \A x \in Elements :
      LET once == DistinctOutcome(selectedValues, classList, refineValue, x, TRUE)
          twice == DistinctOutcome(once.sel, once.cls, once.pred, x, TRUE)
      IN /\ Labels(twice.sel) = Labels(selectedValues)
         /\ SameValues(twice.pred, refineValue)
         /\ twice.cls = classList

====
